---- MODULE Spec2Model ----
(***************************************************************************)
(* Model of package netmask (src/netmask/mask.go): the Mask value type,    *)
(* its constructors, queries, byte conversion and binary / text codecs.    *)
(*                                                                         *)
(* Representation.  A byte slice or a text is a sequence of byte values    *)
(* 0..255 (a text is its ASCII bytes: '0' is 48, '.' is 46).  A uint32 is  *)
(* the record [hi, lo] of its two 16-bit halves (value hi * 65536 + lo),   *)
(* because TLC's integers are 32-bit signed and cannot hold 2^32 - 1; the  *)
(* shifts and masks of the code are done by arithmetic on the halves.  A   *)
(* Mask is the record [mask, z] of the Go struct.  An error is a string,   *)
(* "" being nil.                                                           *)
(***************************************************************************)
EXTENDS Integers, Sequences, FiniteSets, TLC

VARIABLES
    mask,   \* the Mask binding the program constructs or decodes into
    old,    \* the binding's value before the last operation
    op,     \* the last operation
    arg,    \* its input: bytes, text bytes, or <<ones, bits>>
    out,    \* the byte sequence it returned (AsSlice, MarshalBinary, MarshalText)
    ret,    \* the integer it returned (Bits)
    ok,     \* the boolean it returned (MaskFromSlice)
    err     \* the error it returned, "" for nil

vars == <<mask, old, op, arg, out, ret, ok, err>>

-----------------------------------------------------------------------------
(* Sentinel Mask.z values *)
z0 == 0
z4 == 1
z6 == 2

(* uint32 arithmetic on 16-bit halves *)

\* uint32(n) for a small non-negative int n
U32Of(n) == [hi |-> n \div 65536, lo |-> n % 65536]

\* uint(m) of a uint32
U32Val(m) == m.hi * 65536 + m.lo

\* uint32(b0)<<24 | uint32(b1)<<16 | uint32(b2)<<8 | uint32(b3), each below 256
U32Pack(b0, b1, b2, b3) == [hi |-> b0 * 256 + b1, lo |-> b2 * 256 + b3]

\* byte(m >> shift) for shift in {24, 16, 8, 0}
U32Byte(m, shift) ==
    CASE shift = 24 -> (m.hi \div 256) % 256
      [] shift = 16 -> m.hi % 256
      [] shift = 8  -> (m.lo \div 256) % 256
      [] shift = 0  -> m.lo % 256

\* Mask{}: the zero Mask
ZeroMask == [mask |-> [hi |-> 0, lo |-> 0], z |-> z0]

-----------------------------------------------------------------------------
(* Construction *)

MaskFrom4(b) == [mask |-> U32Pack(b[1], b[2], b[3], b[4]), z |-> z4]

\* for v&0x80 != 0 { n++; v <<= 1 } on a byte v: the count and the v left
RECURSIVE leadingBits(_)
leadingBits(v) ==
    IF v >= 128
    THEN LET r == leadingBits((v * 2) % 256) IN [n |-> r.n + 1, v |-> r.v]
    ELSE [n |-> 0, v |-> v]

\* the range loop of prefixLength from (1-based) index i with n counted so far
RECURSIVE prefixLengthLoop(_, _, _)
prefixLengthLoop(b, i, n) ==
    IF i > Len(b) THEN n
    ELSE IF b[i] = 255 THEN prefixLengthLoop(b, i + 1, n + 8)
    ELSE LET r == leadingBits(b[i]) IN
         IF r.v # 0 THEN -1
         ELSE IF \E j \in (i + 1)..Len(b) : b[j] # 0 THEN -1
         ELSE n + r.n

\* prefixLength without the check of the bytes after the first byte that is
\* not 0xFF
RECURSIVE prefixLengthNoTailLoop(_, _, _)
prefixLengthNoTailLoop(b, i, n) ==
    IF i > Len(b) THEN n
    ELSE IF b[i] = 255 THEN prefixLengthNoTailLoop(b, i + 1, n + 8)
    ELSE LET r == leadingBits(b[i]) IN
         IF r.v # 0 THEN -1 ELSE n + r.n

prefixLengthNoTail(b) == prefixLengthNoTailLoop(b, 1, 0)

prefixLength(b) == prefixLengthLoop(b, 1, 0)

MaskFrom16(b) ==
    LET ones == prefixLength(b) IN
    IF ones = -1 THEN ZeroMask ELSE [mask |-> U32Of(ones), z |-> z6]

\* returns [mask, ok]
MaskFromSlice(b) ==
    CASE Len(b) = 4  -> [mask |-> MaskFrom4(b), ok |-> TRUE]
      [] Len(b) = 16 -> [mask |-> MaskFrom16(b), ok |-> TRUE]
      [] OTHER       -> [mask |-> ZeroMask, ok |-> FALSE]

\* the loop of MaskFrom over mask[i], i < 4, with n ones left
RECURSIVE maskFromLoop(_, _)
maskFromLoop(n, i) ==
    IF i >= 4 THEN <<>>
    ELSE IF n >= 8 THEN <<255>> \o maskFromLoop(n - 8, i + 1)
    ELSE <<255 - (255 \div (2 ^ n))>> \o maskFromLoop(0, i + 1)

\* MaskFrom rejecting ones >= bits
MaskFromStrict(ones, bits) ==
    IF ones < 0 \/ ones >= bits THEN ZeroMask
    ELSE CASE bits = 32  -> MaskFrom4(maskFromLoop(ones, 0))
           [] bits = 128 -> [mask |-> U32Of(ones), z |-> z6]
           [] OTHER      -> ZeroMask

\* MaskFrom without the check of ones against bits
MaskFromUnchecked(ones, bits) ==
    IF ones < 0 THEN ZeroMask
    ELSE CASE bits = 32  -> MaskFrom4(maskFromLoop(ones, 0))
           [] bits = 128 -> [mask |-> U32Of(ones), z |-> z6]
           [] OTHER      -> ZeroMask

MaskFrom(ones, bits) ==
    IF ones < 0 \/ ones > bits THEN ZeroMask
    ELSE CASE bits = 32  -> MaskFrom4(maskFromLoop(ones, 0))
           [] bits = 128 -> [mask |-> U32Of(ones), z |-> z6]
           [] OTHER      -> ZeroMask

-----------------------------------------------------------------------------
(* Introspection and byte conversion *)

IsValid(m) == m.z # z0
Is4(m) == m.z = z4
Is6(m) == m.z = z6

\* the loop of AsSlice over ret[i], i < 16, with n ones left
RECURSIVE asSliceLoop(_, _)
asSliceLoop(n, i) ==
    IF i >= 16 THEN <<>>
    ELSE IF n >= 8 THEN <<255>> \o asSliceLoop(n - 8, i + 1)
    ELSE <<255 - (255 \div (2 ^ n))>> \o asSliceLoop(0, i + 1)

\* AsSlice writing 0xFF >> n, without the complement, for the partial byte
RECURSIVE asSliceLoopNoNot(_, _)
asSliceLoopNoNot(n, i) ==
    IF i >= 16 THEN <<>>
    ELSE IF n >= 8 THEN <<255>> \o asSliceLoopNoNot(n - 8, i + 1)
    ELSE <<255 \div (2 ^ n)>> \o asSliceLoopNoNot(0, i + 1)

AsSliceNoNot(m) ==
    CASE m.z = z0 -> <<>>
      [] m.z = z4 -> <<U32Byte(m.mask, 24), U32Byte(m.mask, 16),
                       U32Byte(m.mask, 8), U32Byte(m.mask, 0)>>
      [] OTHER    -> asSliceLoopNoNot(U32Val(m.mask), 0)

\* nil is the empty sequence
AsSlice(m) ==
    CASE m.z = z0 -> <<>>
      [] m.z = z4 -> <<U32Byte(m.mask, 24), U32Byte(m.mask, 16),
                       U32Byte(m.mask, 8), U32Byte(m.mask, 0)>>
      [] OTHER    -> asSliceLoop(U32Val(m.mask), 0)

\* Bits without the case of the zero Mask
BitsNoZeroCase(m) ==
    CASE m.z = z4 -> prefixLength(AsSlice(m))
      [] OTHER    -> U32Val(m.mask)

Bits(m) ==
    CASE m.z = z0 -> -1
      [] m.z = z4 -> prefixLength(AsSlice(m))
      [] OTHER    -> U32Val(m.mask)

-----------------------------------------------------------------------------
(* Binary codec.  Encoders return [out, err], decoders return [mask, err]  *)
(* where mask is the receiver after the call.                              *)

AppendBinary(m, b) ==
    CASE m.z = z0 -> [out |-> b, err |-> ""]
      [] m.z = z4 -> [out |-> b \o <<U32Byte(m.mask, 24), U32Byte(m.mask, 16),
                                     U32Byte(m.mask, 8), U32Byte(m.mask, 0)>>,
                      err |-> ""]
      [] OTHER    -> [out |-> b \o <<U32Byte(m.mask, 0)>>, err |-> ""]

MarshalBinary(m) == AppendBinary(m, <<>>)

\* UnmarshalBinary decoding the one-byte form as a 32-bit prefix
UnmarshalBinaryAs32(m, b) ==
    CASE Len(b) = 0 -> [mask |-> ZeroMask, err |-> ""]
      [] Len(b) = 4 -> [mask |-> MaskFrom4(b), err |-> ""]
      [] Len(b) = 1 -> [mask |-> MaskFrom(b[1], 32), err |-> ""]
      [] OTHER      -> [mask |-> m, err |-> "unexpected slice size"]

\* UnmarshalBinary resetting the receiver before it reports the error
UnmarshalBinaryClobber(m, b) ==
    CASE Len(b) = 0 -> [mask |-> ZeroMask, err |-> ""]
      [] Len(b) = 4 -> [mask |-> MaskFrom4(b), err |-> ""]
      [] Len(b) = 1 -> [mask |-> MaskFrom(b[1], 128), err |-> ""]
      [] OTHER      -> [mask |-> ZeroMask, err |-> "unexpected slice size"]

UnmarshalBinary(m, b) ==
    CASE Len(b) = 0 -> [mask |-> ZeroMask, err |-> ""]
      [] Len(b) = 4 -> [mask |-> MaskFrom4(b), err |-> ""]
      [] Len(b) = 1 -> [mask |-> MaskFrom(b[1], 128), err |-> ""]
      [] OTHER      -> [mask |-> m, err |-> "unexpected slice size"]

-----------------------------------------------------------------------------
(* Text codec *)

\* the decimal digits of u, most significant first, as ASCII bytes
RECURSIVE formatDecimal(_)
formatDecimal(u) ==
    IF u < 10 THEN <<48 + u>>
    ELSE formatDecimal(u \div 10) \o <<48 + (u % 10)>>

\* strconv.AppendUint(b, u, 10)
AppendUint(b, u) == b \o formatDecimal(u)

\* appendTextIPv4 printing the third byte again as the fourth field
appendTextIPv4Dup(m, b) ==
    LET b1 == AppendUint(b, U32Byte(m.mask, 24)) \o <<46>>
        b2 == AppendUint(b1, U32Byte(m.mask, 16)) \o <<46>>
        b3 == AppendUint(b2, U32Byte(m.mask, 8)) \o <<46>>
    IN  AppendUint(b3, U32Byte(m.mask, 8))

appendTextIPv4(m, b) ==
    LET b1 == AppendUint(b, U32Byte(m.mask, 24)) \o <<46>>
        b2 == AppendUint(b1, U32Byte(m.mask, 16)) \o <<46>>
        b3 == AppendUint(b2, U32Byte(m.mask, 8)) \o <<46>>
    IN  AppendUint(b3, U32Byte(m.mask, 0))

AppendText(m, b) ==
    CASE m.z = z0 -> [out |-> b, err |-> ""]
      [] m.z = z4 -> [out |-> appendTextIPv4(m, b), err |-> ""]
      [] OTHER    -> [out |-> AppendUint(b, U32Val(m.mask)), err |-> ""]

MarshalText(m) == AppendText(m, <<>>)

\* the digit loop of strconv.ParseUint in base 10 from index i with n
\* accumulated; maxVal is 2^bitSize - 1.  Letters are digits >= base, and
\* every other byte is no digit: both are syntax errors.
RECURSIVE parseUintLoop(_, _, _, _)
parseUintLoop(s, i, n, maxVal) ==
    IF i > Len(s) THEN [val |-> n, err |-> ""]
    ELSE IF s[i] < 48 \/ s[i] > 57 THEN [val |-> 0, err |-> "invalid syntax"]
    ELSE IF n >= (maxVal \div 10) + 1 THEN [val |-> maxVal, err |-> "value out of range"]
    ELSE LET n1 == n * 10 + (s[i] - 48) IN
         IF n1 > maxVal THEN [val |-> maxVal, err |-> "value out of range"]
         ELSE parseUintLoop(s, i + 1, n1, maxVal)

\* strconv.ParseUint(s, 10, bitSize), returning [val, err].  With bitSize 64
\* the code parses texts of at most 3 bytes, whose value is at most 999: the
\* 64-bit range, which TLC's integers cannot hold, is stood for by the
\* largest TLC integer, and no such text reaches it.
ParseUint(s, bitSize) ==
    IF Len(s) = 0 THEN [val |-> 0, err |-> "invalid syntax"]
    ELSE parseUintLoop(s, 1, 0, IF bitSize < 31 THEN 2 ^ bitSize - 1 ELSE 2147483647)

\* the index of the first '.' of s at or after i, 0 when there is none
RECURSIVE indexDot(_, _)
indexDot(s, i) ==
    IF i > Len(s) THEN 0
    ELSE IF s[i] = 46 THEN i
    ELSE indexDot(s, i + 1)

\* strings.SplitN(s, ".", n) for n > 0: at most n substrings, the last one
\* the unsplit remainder
RECURSIVE SplitN(_, _)
SplitN(s, n) ==
    LET m == indexDot(s, 1) IN
    IF n <= 1 \/ m = 0 THEN <<s>>
    ELSE <<SubSeq(s, 1, m - 1)>> \o SplitN(SubSeq(s, m + 1, Len(s)), n - 1)

\* unmarshalTextIPv4 parsing each field with bitSize 16
unmarshalTextIPv4Wide(m, text) ==
    LET sub == SplitN(text, 4) IN
    IF Len(sub) # 4 THEN [mask |-> m, err |-> "unexpected slice type"]
    ELSE LET f == [i \in 1..4 |-> ParseUint(sub[i], 16)]
             bad == {i \in 1..4 : f[i].err # ""}
         IN  IF bad # {}
             THEN [mask |-> m, err |-> f[CHOOSE i \in bad : \A j \in bad : i <= j].err]
             ELSE [mask |-> [mask |-> U32Pack(f[1].val, f[2].val, f[3].val, f[4].val),
                             z |-> z4],
                   err |-> ""]

\* the case n >= len("1.1.1.1") && n <= len("255.255.255.255") of UnmarshalText
unmarshalTextIPv4(m, text) ==
    LET sub == SplitN(text, 4) IN
    IF Len(sub) # 4 THEN [mask |-> m, err |-> "unexpected slice type"]
    ELSE LET f == [i \in 1..4 |-> ParseUint(sub[i], 8)]
             bad == {i \in 1..4 : f[i].err # ""}
         IN  IF bad # {}
             THEN [mask |-> m, err |-> f[CHOOSE i \in bad : \A j \in bad : i <= j].err]
             ELSE [mask |-> [mask |-> U32Pack(f[1].val, f[2].val, f[3].val, f[4].val),
                             z |-> z4],
                   err |-> ""]

\* the case n >= 1 && n <= 3 of UnmarshalText
unmarshalTextPrefix(m, text) ==
    LET u == ParseUint(text, 64) IN
    IF u.err # "" THEN [mask |-> m, err |-> u.err]
    ELSE [mask |-> MaskFrom(u.val, 128), err |-> ""]

UnmarshalText(m, text) ==
    CASE Len(text) = 0 -> [mask |-> ZeroMask, err |-> ""]
      [] Len(text) >= 1 /\ Len(text) <= 3 -> unmarshalTextPrefix(m, text)
      [] Len(text) >= 7 /\ Len(text) <= 15 -> unmarshalTextIPv4(m, text)
      [] OTHER -> [mask |-> m, err |-> "unexpected slice size"]

-----------------------------------------------------------------------------
(* Operations on the binding.  A constructor call assigns its result to    *)
(* the binding; a decode has the binding as its receiver; a query or an    *)
(* encoder reads the binding and leaves it alone.                          *)

Init ==
    /\ mask = ZeroMask
    /\ old = ZeroMask
    /\ op = "init"
    /\ arg = <<>>
    /\ out = <<>>
    /\ ret = 0
    /\ ok = TRUE
    /\ err = ""

CallMaskFrom4(b) ==
    /\ mask' = MaskFrom4(b)
    /\ old' = mask
    /\ op' = "MaskFrom4"
    /\ arg' = b
    /\ out' = <<>> /\ ret' = 0 /\ ok' = TRUE /\ err' = ""

CallMaskFrom16(b) ==
    /\ mask' = MaskFrom16(b)
    /\ old' = mask
    /\ op' = "MaskFrom16"
    /\ arg' = b
    /\ out' = <<>> /\ ret' = 0 /\ ok' = TRUE /\ err' = ""

CallMaskFromSlice(b) ==
    LET r == MaskFromSlice(b) IN
    /\ mask' = r.mask
    /\ ok' = r.ok
    /\ old' = mask
    /\ op' = "MaskFromSlice"
    /\ arg' = b
    /\ out' = <<>> /\ ret' = 0 /\ err' = ""

CallMaskFrom(ones, bits) ==
    /\ mask' = MaskFrom(ones, bits)
    /\ old' = mask
    /\ op' = "MaskFrom"
    /\ arg' = <<ones, bits>>
    /\ out' = <<>> /\ ret' = 0 /\ ok' = TRUE /\ err' = ""

CallUnmarshalBinary(b) ==
    LET r == UnmarshalBinary(mask, b) IN
    /\ mask' = r.mask
    /\ err' = r.err
    /\ old' = mask
    /\ op' = "UnmarshalBinary"
    /\ arg' = b
    /\ out' = <<>> /\ ret' = 0 /\ ok' = TRUE

CallUnmarshalText(text) ==
    LET r == UnmarshalText(mask, text) IN
    /\ mask' = r.mask
    /\ err' = r.err
    /\ old' = mask
    /\ op' = "UnmarshalText"
    /\ arg' = text
    /\ out' = <<>> /\ ret' = 0 /\ ok' = TRUE

CallBits ==
    /\ ret' = Bits(mask)
    /\ op' = "Bits"
    /\ old' = mask
    /\ arg' = <<>> /\ out' = <<>> /\ ok' = TRUE /\ err' = ""
    /\ UNCHANGED mask

CallAsSlice ==
    /\ out' = AsSlice(mask)
    /\ op' = "AsSlice"
    /\ old' = mask
    /\ arg' = <<>> /\ ret' = 0 /\ ok' = TRUE /\ err' = ""
    /\ UNCHANGED mask

CallMarshalBinary ==
    LET r == MarshalBinary(mask) IN
    /\ out' = r.out
    /\ err' = r.err
    /\ op' = "MarshalBinary"
    /\ old' = mask
    /\ arg' = <<>> /\ ret' = 0 /\ ok' = TRUE
    /\ UNCHANGED mask

CallMarshalText ==
    LET r == MarshalText(mask) IN
    /\ out' = r.out
    /\ err' = r.err
    /\ op' = "MarshalText"
    /\ old' = mask
    /\ arg' = <<>> /\ ret' = 0 /\ ok' = TRUE
    /\ UNCHANGED mask

-----------------------------------------------------------------------------
(* Reference notions the properties are stated with.  They are defined on  *)
(* bits and characters directly, not through the operators above.          *)

\* bit k (0 is the most significant bit of the first byte) of bytes b
BitOf(b, k) == (b[(k \div 8) + 1] \div (2 ^ (7 - (k % 8)))) % 2

\* b is exactly n one-bits followed by zero-bits
IsPrefixBits(b, n) == \A k \in 0..(8 * Len(b) - 1) : BitOf(b, k) = IF k < n THEN 1 ELSE 0

\* some one-bit of b comes after a zero-bit: b is n one-bits followed by
\* zero-bits for no n (a zero-bit directly followed by a one-bit exists)
HasOneAfterZero(b) == \E k \in 0..(8 * Len(b) - 2) : BitOf(b, k) = 0 /\ BitOf(b, k + 1) = 1

\* the len bytes that are n one-bits followed by zero-bits
PrefixBytes(n, len) ==
    [i \in 1..len |->
        LET r == n - 8 * (i - 1) IN
        IF r >= 8 THEN 255 ELSE IF r <= 0 THEN 0 ELSE 256 - 2 ^ (8 - r)]

\* b with bit k inverted
FlipBit(b, k) ==
    [b EXCEPT ![(k \div 8) + 1] =
        IF BitOf(b, k) = 1 THEN @ - 2 ^ (7 - (k % 8)) ELSE @ + 2 ^ (7 - (k % 8))]

\* s is a non-empty string of decimal digits
IsDigits(s) == Len(s) > 0 /\ \A i \in 1..Len(s) : s[i] \in 48..57

\* the number a string of decimal digits denotes
RECURSIVE DecValue(_)
DecValue(s) ==
    IF Len(s) = 0 THEN 0
    ELSE DecValue(SubSeq(s, 1, Len(s) - 1)) * 10 + (s[Len(s)] - 48)

\* a digit string without its leading zeros (the last digit is kept)
RECURSIVE StripZeros(_)
StripZeros(s) ==
    IF Len(s) > 1 /\ s[1] = 48 THEN StripZeros(SubSeq(s, 2, Len(s))) ELSE s

\* s is an unsigned decimal denoting a number in 0..max, max below 1000
IsDecimalUpTo(s, max) ==
    /\ IsDigits(s)
    /\ Len(StripZeros(s)) <= 3
    /\ DecValue(StripZeros(s)) <= max

\* the positions of '.' in s, the number of fields they separate, and the
\* k-th field
DotPos(s) == {i \in 1..Len(s) : s[i] = 46}
FieldCount(s) == Cardinality(DotPos(s)) + 1
NthDot(s, k) == CHOOSE i \in DotPos(s) : Cardinality({j \in DotPos(s) : j < i}) = k - 1
FieldOf(s, k) ==
    SubSeq(s,
           IF k = 1 THEN 1 ELSE NthDot(s, k - 1) + 1,
           IF k = FieldCount(s) THEN Len(s) ELSE NthDot(s, k) - 1)

\* the fields fs joined by '.'
RECURSIVE JoinDots(_)
JoinDots(fs) ==
    IF Len(fs) = 1 THEN fs[1]
    ELSE JoinDots(SubSeq(fs, 1, Len(fs) - 1)) \o <<46>> \o fs[Len(fs)]

-----------------------------------------------------------------------------
(* Bounds and input sets *)

\* MaskFrom is called with ones in -2..MaxOnes and bits in -1..MaxBits
MaxOnes == 130
MaxBits == 130
\* MaskFromSlice is called with slices of length 0..MaxSliceLen
MaxSliceLen == 17
\* UnmarshalBinary is called with inputs of length 0..MaxBinLen
MaxBinLen == 5
\* UnmarshalText is called with every text of length 0..MaxShortLen over
\* ShortChars, with 1..MaxFields fields of FieldTexts joined by '.', and with
\* 4 fields joined by '.' of which one is any text of length 0..MaxFieldLen
\* over ShortChars
MaxShortLen == 3
MaxFields == 5
MaxFieldLen == 3

\* byte values: zero, the decimal-width boundaries, a non-prefix pattern,
\* the high bit, all ones but the last, all ones
ByteVals == {0, 9, 10, 85, 100, 128, 254, 255}

Bytes4Inputs == {<<a, b, c, d>> : a \in ByteVals, b \in ByteVals, c \in ByteVals, d \in ByteVals}

\* every prefix; every prefix with one bit inverted; k bytes 0xFF, then any
\* byte, then zeros, with any ByteVals as the last byte
Bytes16Inputs ==
    {PrefixBytes(n, 16) : n \in 0..128}
    \cup {FlipBit(PrefixBytes(n, 16), k) : n \in 0..128, k \in 0..127}
    \cup {[i \in 1..16 |-> IF i <= k THEN 255
                           ELSE IF i = k + 1 THEN v
                           ELSE IF i = 16 THEN t ELSE 0] :
            k \in 0..15, v \in 0..255, t \in {0, 1}}

\* slices of every length: every prefix, and a non-prefix pattern
SliceInputs ==
    UNION {{PrefixBytes(n, len) : n \in 0..(8 * len)} \cup {[i \in 1..len |-> 85]} :
            len \in 0..MaxSliceLen}

OnesInputs == (-2)..MaxOnes
BitsInputs == (-1)..MaxBits

\* every one-byte input, the ByteVals inputs of the other lengths
BinInputs ==
    {<<v>> : v \in 0..255}
    \cup UNION {[1..len -> {0, 128, 255}] : len \in 0..MaxBinLen}

\* '0' '1' '2' '8' '9' '.' 'x' '+' '-'
ShortChars == {48, 49, 50, 56, 57, 46, 120, 43, 45}
ShortTexts == UNION {[1..len -> ShortChars] : len \in 0..MaxShortLen}

\* "" "0" "000" "0255" "255" "256" "1x"
FieldTexts == {<<>>, <<48>>, <<48, 48, 48>>, <<48, 50, 53, 53>>, <<50, 53, 53>>,
               <<50, 53, 54>>, <<49, 120>>}
DottedTexts == {JoinDots(fs) : fs \in UNION {[1..k -> FieldTexts] : k \in 1..MaxFields}}

\* "0.0.0.0" and "255.255.255.255" with one field replaced by any short text
AnyFieldTexts == UNION {[1..len -> ShortChars] : len \in 0..MaxFieldLen}
OneFieldTexts ==
    {JoinDots([i \in 1..4 |-> IF i = k THEN f ELSE g]) :
        k \in 1..4, f \in AnyFieldTexts, g \in {<<48>>, <<50, 53, 53>>}}

ConstructorOps == {"MaskFrom4", "MaskFrom16", "MaskFromSlice", "MaskFrom"}

-----------------------------------------------------------------------------
(* SpecCtor: a fresh binding is constructed from any input, then queried   *)
(* or encoded.                                                             *)

NewMaskFrom4 == op = "init" /\ \E b \in Bytes4Inputs : CallMaskFrom4(b)
NewMaskFrom16 == op = "init" /\ \E b \in Bytes16Inputs : CallMaskFrom16(b)
NewMaskFromSlice == op = "init" /\ \E b \in SliceInputs : CallMaskFromSlice(b)
NewMaskFrom == op = "init" /\ \E ones \in OnesInputs, bits \in BitsInputs : CallMaskFrom(ones, bits)
ThenBits == op \in ConstructorOps /\ CallBits
ThenAsSlice == op \in ConstructorOps /\ CallAsSlice
ThenMarshalBinary == op \in ConstructorOps /\ CallMarshalBinary
ThenMarshalText == op \in ConstructorOps /\ CallMarshalText

NextCtor ==
    \/ NewMaskFrom4
    \/ NewMaskFrom16
    \/ NewMaskFromSlice
    \/ NewMaskFrom
    \/ ThenBits
    \/ ThenAsSlice
    \/ ThenMarshalBinary
    \/ ThenMarshalText

SpecCtor == Init /\ [][NextCtor]_vars

(* SpecDecode: a fresh binding is decoded into from any input.             *)

NewUnmarshalBinary == op = "init" /\ \E b \in BinInputs : CallUnmarshalBinary(b)
NewUnmarshalText == op = "init" /\ \E t \in ShortTexts \cup DottedTexts \cup OneFieldTexts : CallUnmarshalText(t)

NextDecode ==
    \/ NewUnmarshalBinary
    \/ NewUnmarshalText

SpecDecode == Init /\ [][NextDecode]_vars

(* Spec: any sequence of constructor calls, decodes, queries and encodes   *)
(* on one binding, over a few inputs of every kind.                        *)

SeqBytes4 == {<<255, 255, 255, 0>>, <<85, 0, 0, 0>>}
SeqBytes16 == {PrefixBytes(64, 16), PrefixBytes(128, 16), FlipBit(PrefixBytes(8, 16), 10)}
SeqSlices == {<<255, 0, 0, 0>>, PrefixBytes(1, 16), <<1, 2, 3>>}
SeqOnesBits == {<<24, 32>>, <<33, 32>>, <<-1, 32>>, <<0, 128>>, <<129, 128>>, <<8, 64>>, <<200, 300>>}
SeqBin == {<<>>, <<64>>, <<128>>, <<129>>, <<255>>, <<1, 2>>, <<1, 2, 3>>, <<255, 255, 0, 0>>,
           <<1, 2, 3, 4, 5>>}
\* "" "64" "129" "999" "1x" "1.2.3" "1.2.3.4" "1.2.256.4" "255.255.255.0"
\* "1.2.3.4.5" "1.2.x.4"
SeqTexts == {<<>>, <<54, 52>>, <<49, 50, 57>>, <<57, 57, 57>>, <<49, 120>>,
             <<49, 46, 50, 46, 51>>,
             <<49, 46, 50, 46, 51, 46, 52>>,
             <<49, 46, 50, 46, 50, 53, 54, 46, 52>>,
             <<50, 53, 53, 46, 50, 53, 53, 46, 50, 53, 53, 46, 48>>,
             <<49, 46, 50, 46, 51, 46, 52, 46, 53>>,
             <<49, 46, 50, 46, 120, 46, 52>>}

DoMaskFrom4 == \E b \in SeqBytes4 : CallMaskFrom4(b)
DoMaskFrom16 == \E b \in SeqBytes16 : CallMaskFrom16(b)
DoMaskFromSlice == \E b \in SeqSlices : CallMaskFromSlice(b)
DoMaskFrom == \E p \in SeqOnesBits : CallMaskFrom(p[1], p[2])
DoUnmarshalBinary == \E b \in SeqBin : CallUnmarshalBinary(b)
DoUnmarshalText == \E t \in SeqTexts : CallUnmarshalText(t)

Next ==
    \/ DoMaskFrom4
    \/ DoMaskFrom16
    \/ DoMaskFromSlice
    \/ DoMaskFrom
    \/ DoUnmarshalBinary
    \/ DoUnmarshalText
    \/ CallBits
    \/ CallAsSlice
    \/ CallMarshalBinary
    \/ CallMarshalText

Spec == Init /\ [][Next]_vars

-----------------------------------------------------------------------------
(* Properties *)

\* the 4 bytes of the 32 bits an IPv4 Mask stores, most significant first
StoredBytes(m) ==
    <<m.mask.hi \div 256, m.mask.hi % 256, m.mask.lo \div 256, m.mask.lo % 256>>

\* the IPv6 prefix Mask of length n
Prefix6(n) == [mask |-> [hi |-> 0, lo |-> n], z |-> z6]

\* receivers a decode is tried on: the zero Mask and a Mask of each family
Receivers == {ZeroMask, Prefix6(7), [mask |-> [hi |-> 258, lo |-> 772], z |-> z4]}

\* C1: binary round trip.  MarshalBinary of a constructed Mask returns no
\* error and 0 bytes for the zero Mask, 4 for IPv4 and 1 for an IPv6 prefix,
\* and UnmarshalBinary of those bytes, into any receiver, returns no error
\* and leaves the receiver equal to the Mask.
C1_BinaryRoundTrip ==
    op = "MarshalBinary" =>
        /\ err = ""
        /\ Len(out) = (IF mask.z = z0 THEN 0 ELSE IF mask.z = z4 THEN 4 ELSE 1)
        /\ \A r \in Receivers : UnmarshalBinary(r, out) = [mask |-> mask, err |-> ""]

C1_Witness ==
    /\ op = "MarshalBinary"
    /\ mask = Prefix6(128)
    /\ out = <<128>>

\* C2: text round trip.  MarshalText of a constructed Mask returns no error,
\* the empty text for the zero Mask, and UnmarshalText of the text, into any
\* receiver, returns no error and leaves the receiver equal to the Mask.
C2_TextRoundTrip ==
    op = "MarshalText" =>
        /\ err = ""
        /\ (mask.z = z0 <=> out = <<>>)
        /\ \A r \in Receivers : UnmarshalText(r, out) = [mask |-> mask, err |-> ""]

\* "255.100.9.0"
C2_Witness ==
    /\ op = "MarshalText"
    /\ mask.z = z4
    /\ StoredBytes(mask) = <<255, 100, 9, 0>>
    /\ out = <<50, 53, 53, 46, 49, 48, 48, 46, 57, 46, 48>>

\* C3: UnmarshalText of a text of length 1 to 3 that is no decimal number, or
\* that denotes a number above 128, returns an error.
C3_OutOfRangePrefixIsError ==
    (/\ op = "UnmarshalText"
     /\ Len(arg) >= 1 /\ Len(arg) <= 3
     /\ (~IsDigits(arg) \/ DecValue(arg) > 128))
    => err # ""

\* C4: MaskFrom16 returns the IPv6 prefix Mask of length N when its 16 bytes
\* are N one-bits followed by zero-bits, and the zero Mask when a one-bit
\* comes after a zero-bit.  (The bytes are N one-bits followed by zero-bits
\* for at most one N, and for none exactly when a one-bit comes after a
\* zero-bit.)
C4_MaskFrom16Prefix ==
    op = "MaskFrom16" =>
        IF HasOneAfterZero(arg)
        THEN mask = ZeroMask
        ELSE /\ mask.z = z6
             /\ mask.mask.hi = 0
             /\ mask.mask.lo \in 0..128
             /\ IsPrefixBits(arg, mask.mask.lo)

\* 0b10110000 then zeros
C4_Witness ==
    /\ op = "MaskFrom16"
    /\ arg = [i \in 1..16 |-> IF i = 1 THEN 176 ELSE 0]
    /\ mask = ZeroMask

\* C5: MaskFrom(ones, bits) returns the zero Mask exactly when bits is not
\* 32 or 128 or ones is outside 0..bits; for bits = 32 the IPv4 Mask of the
\* 4 bytes that are ones one-bits followed by zero-bits; for bits = 128 the
\* IPv6 prefix Mask of length ones.
C5_MaskFrom ==
    op = "MaskFrom" =>
        LET ones == arg[1]
            bits == arg[2]
        IN  /\ (~IsValid(mask)) <=> (bits \notin {32, 128} \/ ones < 0 \/ ones > bits)
            /\ ~IsValid(mask) => mask = ZeroMask
            /\ (bits = 32 /\ ones >= 0 /\ ones <= 32)
                   => mask = MaskFrom4(PrefixBytes(ones, 4))
            /\ (bits = 128 /\ ones >= 0 /\ ones <= 128) => mask = Prefix6(ones)

C5_Witness ==
    /\ op = "MaskFrom"
    /\ arg = <<24, 32>>
    /\ mask = MaskFrom4(<<255, 255, 255, 0>>)

\* C6: Bits returns -1 for the zero Mask, the stored length for an IPv6
\* prefix Mask, and for an IPv4 Mask n when the stored 32 bits are n
\* one-bits followed by zero-bits and -1 when they are that for no n; the
\* IPv4 Mask is valid in both cases.
C6_Bits ==
    op = "Bits" =>
        /\ mask.z = z0 => ret = -1
        /\ mask.z = z6 => ret = mask.mask.lo /\ mask.mask.hi = 0
        /\ mask.z = z4 =>
               /\ IsValid(mask)
               /\ \A n \in 0..32 : IsPrefixBits(StoredBytes(mask), n) => ret = n
               /\ (\A n \in 0..32 : ~IsPrefixBits(StoredBytes(mask), n)) => ret = -1

C6_Witness ==
    /\ op = "Bits"
    /\ mask.z = z4
    /\ StoredBytes(mask) = <<85, 0, 0, 0>>
    /\ IsValid(mask)
    /\ ret = -1

\* C7: AsSlice of the IPv6 prefix Mask of length n is 16 bytes, n one-bits
\* followed by zero-bits, and MaskFrom16 of those bytes is that Mask.
C7_AsSliceRoundTrip ==
    (op = "AsSlice" /\ mask.z = z6) =>
        /\ Len(out) = 16
        /\ IsPrefixBits(out, mask.mask.lo)
        /\ MaskFrom16(out) = mask

C7_Witness ==
    /\ op = "AsSlice"
    /\ mask = Prefix6(67)
    /\ out = [i \in 1..16 |-> IF i <= 8 THEN 255 ELSE IF i = 9 THEN 224 ELSE 0]

\* C8: UnmarshalText of a text of length 7 to 15 returns no error, and
\* leaves the IPv4 Mask of the four values in the receiver, exactly when the
\* text splits on '.' into exactly 4 fields that are each an unsigned decimal
\* in 0..255; otherwise it returns an error.
C8_TextIPv4Decode ==
    (op = "UnmarshalText" /\ Len(arg) >= 7 /\ Len(arg) <= 15) =>
        IF /\ FieldCount(arg) = 4
           /\ \A k \in 1..4 : IsDecimalUpTo(FieldOf(arg, k), 255)
        THEN /\ err = ""
             /\ mask = MaskFrom4([k \in 1..4 |-> DecValue(StripZeros(FieldOf(arg, k)))])
        ELSE err # ""

\* "255.000.0.255"
C8_Witness ==
    /\ op = "UnmarshalText"
    /\ arg = <<50, 53, 53, 46, 48, 48, 48, 46, 48, 46, 50, 53, 53>>
    /\ err = ""
    /\ mask = MaskFrom4(<<255, 0, 0, 255>>)

\* C9: after any sequence of constructor calls and decodes the binding is
\* one of the three variants and well-formed: an IPv6 prefix Mask stores a
\* length in 0..128, an IPv4 Mask stores 32 bits, and an invalid Mask is the
\* zero Mask.
C9_WellFormed ==
    /\ mask.z \in {z0, z4, z6}
    /\ mask.mask.hi \in 0..65535
    /\ mask.mask.lo \in 0..65535
    /\ mask.z = z6 => mask.mask.hi = 0 /\ mask.mask.lo \in 0..128
    /\ mask.z = z0 => mask = ZeroMask

\* the one-byte binary form 129 decoded into a binding that held a prefix
C9_Witness ==
    /\ op = "UnmarshalBinary"
    /\ arg = <<129>>
    /\ old.z = z6
    /\ mask = ZeroMask

\* C10: a decode that returns an error leaves the receiver holding the
\* value it had before the call.
C10_ErrorKeepsReceiver ==
    (op \in {"UnmarshalBinary", "UnmarshalText"} /\ err # "") => mask = old

\* "1.2.256.4" decoded into a binding that held an IPv4 Mask
C10_Witness ==
    /\ op = "UnmarshalText"
    /\ arg = <<49, 46, 50, 46, 50, 53, 54, 46, 52>>
    /\ err # ""
    /\ old.z = z4
    /\ mask = old

====
